---- MODULE Spec2Model ----
(***************************************************************************)
(* A model of the dungeon generation pipeline of src/src/DunGEN.py:        *)
(* BranchingPathLayer (the randomized grid walk with whole-attempt         *)
(* restart), AssignRegionsLayer, AssignDifficultiesLayer, AssignRoomTypes  *)
(* and EnemiesLayer, run by gen_map in the order of config.layers on one   *)
(* shared Dungeon.                                                         *)
(*                                                                         *)
(* Rooms are referred to by their index attribute (0-based, as in Python); *)
(* the room with index i is rooms[i + 1].  Paths are referred to by their  *)
(* position in paths; paths[1] is dungeon.mainPath.  Floats are modelled   *)
(* as exact rationals <<numerator, denominator>>.  catalog holds            *)
(* config.layers and the room and enemy type lists given to the layers;    *)
(* a room's type is a position in catalog.roomTypes (0 for None), an       *)
(* enemy a position in catalog.enemyTypes.  called lists the layers whose  *)
(* process_dungeon gen_map has called so far.                              *)
(***************************************************************************)
EXTENDS Integers, Sequences, FiniteSets, TLC

VARIABLES cfg, pc, rooms, keys, paths, stack, pathLength, attempt, curve,
          catalog, called

vars == <<cfg, pc, rooms, keys, paths, stack, pathLength, attempt, curve,
          catalog, called>>

(* ------------------------------ bounds --------------------------------- *)

MaxMainLength == 3
MaxSideLength == 4
MaxChance == 2
MaxAttempts == 2
MaxNoisyRooms == 3

(* Python's None, for an Optional[DungeonRoom] held as a room index. *)
None == 0 - 1

(* ------------------------- configuration space ------------------------- *)

(* The configurations explored.  WalkConfigs vary the main-path range     *)
(* (degenerate ranges and the (5,5) scenario included) with short side     *)
(* paths; TrapConfigs have side paths long enough to wall in the room they *)
(* start from, which is what makes the grid walk fail.                     *)
ScenarioRange == <<5, 5>>

MainRanges ==
  {r \in {<<lo, hi>> : lo \in 0..1, hi \in 0..MaxMainLength} : r[1] <= r[2]}
    \cup {ScenarioRange}

WalkConfigs ==
  [mainPathLength : MainRanges,
   sidePathLength : {<<0, 1>>, <<1, 1>>, <<1, 2>>},
   sidePathChance : {0, MaxChance},
   optionalRoomChance : {0, MaxChance}]

TrapConfigs ==
  [mainPathLength : {<<2, 3>>},
   sidePathLength : {<<MaxSideLength - 1, MaxSideLength>>},
   sidePathChance : {1},
   optionalRoomChance : {MaxChance}]

Configs == WalkConfigs \cup TrapConfigs

(* ------------------------------ randrange ------------------------------ *)


(* random.randrange(a, b): the values a <= v < b; the set is empty exactly *)
(* when the call raises ValueError.                                        *)
rand2(a, b) == {v \in a..(b - 1) : TRUE}

(* rand(chance) == 0 for chance > 0: the outcomes of the comparison. *)
randIsZero(chance) == IF chance = 1 THEN {TRUE} ELSE {TRUE, FALSE}

(* ----------------------------- DungeonRoom ----------------------------- *)

DungeonRoom ==
  [x |-> 0, y |-> 0, index |-> 0,
   doors |-> <<FALSE, FALSE, FALSE, FALSE>>,
   depth |-> 0, type |-> 0, difficulty |-> <<0, 1>>, region |-> 0,
   enemies |-> <<>>, attempt |-> 0]

(* A room whose neighbouring door moves along with the one that is set. *)
set_door_and_next(room, door, state) ==
  IF door \in 0..3
  THEN [room EXCEPT !.doors = [room.doors EXCEPT ![door + 1] = state,
                                                 ![((door + 1) % 4) + 1] = state]]
  ELSE room

set_door(room, door, state) ==
  IF door \in 0..3
  THEN [room EXCEPT !.doors = [room.doors EXCEPT ![door + 1] = state]]
  ELSE room


(* A neighbouring wall taken for the opposite one. *)
OppositeDoorOffByOne(d) == (d + 1) % 4

OppositeDoor(d) == (d + 2) % 4


(* A key whose lock is put on the wall opposite to the door just opened. *)
DungeonKeyWrongWall(keyLocation, lockLocation, lockedDoor) ==
  [keyLocation |-> keyLocation, lockLocation |-> lockLocation,
   lockedDoor |-> (lockedDoor + 2) % 4]

DungeonKey(keyLocation, lockLocation, lockedDoor) ==
  [keyLocation |-> keyLocation, lockLocation |-> lockLocation,
   lockedDoor |-> lockedDoor]

DungeonPath(optional) ==
  [rooms |-> <<>>, sidePaths |-> <<>>, optional |-> optional]

(* ------------------------------- Dungeon ------------------------------- *)

add_room(rs, room) == Append(rs, [room EXCEPT !.index = Len(rs)])

(* Index of the first room at (x, y), or None. *)
get_room_at(rs, x, y) ==
  LET hits == {i \in 1..Len(rs) : rs[i].x = x /\ rs[i].y = y}
  IN IF hits = {} THEN None
     ELSE (CHOOSE i \in hits : \A j \in hits : i <= j) - 1

shuffle_directions(x, y) ==
  {<<x - 1, y, 0>>, <<x, y - 1, 1>>, <<x + 1, y, 2>>, <<x, y + 1, 3>>}


(* A walk that does not look at the cell before placing a room on it. *)
IsFreeUnchecked(rs, x, y) == TRUE

IsFree(rs, x, y) == get_room_at(rs, x, y) = None

(* The values nextPos can have after the for loop of create_path: the loop *)
(* keeps the last free cell of a uniformly shuffled list, so every free    *)
(* cell can be the result; no free cell leaves nextPos = None.             *)
FreePositions(rs, x, y) ==
  {dir \in shuffle_directions(x, y) : IsFree(rs, dir[1], dir[2])}

(* A search that also goes into optional side paths. *)
IsSearchedEvenIfOptional(side) == TRUE

(* `if side.optional: continue`: optional side paths are not searched. *)
IsSearched(side) == ~side.optional

(* Dungeon.__is_room_optional_recursive for the room with index room and   *)
(* the path at position path of ps.                                        *)
RECURSIVE is_room_optional_recursive(_, _, _)
is_room_optional_recursive(ps, room, path) ==
  IF \E r \in 1..Len(ps[path].rooms) : ps[path].rooms[r] = room THEN FALSE
  ELSE \A k \in 1..Len(ps[path].sidePaths) :
         LET side == ps[path].sidePaths[k]
         IN IsSearched(ps[side]) =>
              is_room_optional_recursive(ps, room, side)

(* Dungeon.is_room_optional; ps[1] is dungeon.mainPath. *)
is_room_optional(ps, room) == is_room_optional_recursive(ps, room, 1)

(* ------------------------------- gen_map ------------------------------- *)

(* Where process_dungeon of each layer class starts. *)
StartOf(layer) ==
  IF layer = "BranchingPathLayer" THEN "process_dungeon"
  ELSE IF layer = "AssignRegionsLayer" THEN "regions"
  ELSE IF layer = "AssignDifficultiesLayer" THEN "difficulties"
  ELSE IF layer = "AssignRoomTypes" THEN "types"
  ELSE "enemies"

(* A driver that goes on with the last layer of the list. *)
gen_map_skipping(ls, c) ==
  IF Len(c) < Len(ls)
  THEN [pc |-> StartOf(ls[Len(ls)]), called |-> Append(c, ls[Len(ls)])]
  ELSE [pc |-> "done", called |-> c]

(* `for layer in config.layers`, when the layer called last has returned:  *)
(* the next layer of the list is called, or the dungeon is returned.       *)
gen_map(ls, c) ==
  IF Len(c) < Len(ls)
  THEN [pc |-> StartOf(ls[Len(c) + 1]), called |-> Append(c, ls[Len(c) + 1])]
  ELSE [pc |-> "done", called |-> c]

(* ------------------------ BranchingPathLayer --------------------------- *)

Top == stack[Len(stack)]

(* A call that starts with a lock pending for the room it starts from. *)
FrameWithPendingLock(path, room, length, depth) ==
  [path |-> path, room |-> room, length |-> length, depth |-> depth,
   prepareLocked |-> TRUE, keyLocation |-> room, at |-> "walk"]

Frame(path, room, length, depth) ==
  [path |-> path, room |-> room, length |-> length, depth |-> depth,
   prepareLocked |-> FALSE, keyLocation |-> None, at |-> "walk"]

SetTop(f) == [stack EXCEPT ![Len(stack)] = f]


(* A key recorded in the room behind the door it opens. *)
LockDoorKeyBehindLock(ks, frame, newRoom, door) ==
  IF frame.prepareLocked /\ frame.keyLocation # None
  THEN Append(ks, DungeonKey(newRoom, frame.room, door))
  ELSE ks

(* create_path, `if prepareLocked:`: the door just opened from frame.room  *)
(* to newRoom is recorded as the lock of the pending key.                  *)
LockDoor(ks, frame, newRoom, door) ==
  IF frame.prepareLocked /\ frame.keyLocation # None
  THEN Append(ks, DungeonKey(frame.keyLocation, frame.room, door))
  ELSE ks


(* A restart that forgets to empty dungeon.rooms. *)
ResetDungeonKeepsRooms(rs, ks, ps) ==
  [rooms |-> rs, keys |-> <<>>, paths |-> <<DungeonPath(FALSE)>>]

(* process_dungeon, the three assignments after a failed attempt.          *)
ResetDungeon(rs, ks, ps) ==
  [rooms |-> <<>>, keys |-> <<>>, paths |-> <<DungeonPath(FALSE)>>]

(* process_dungeon, one iteration of `while True` up to the call of        *)
(* create_path (whose first statement, path.add_room(room), is included).  *)
ProcessDungeon ==
  /\ pc = "process_dungeon"
  /\ LET room == [DungeonRoom EXCEPT !.attempt = attempt]
         rs == add_room(rooms, room)
         lens == rand2(cfg.mainPathLength[1], cfg.mainPathLength[2])
     IN /\ rooms' = rs
        /\ IF lens = {}
           THEN /\ pc' = "ValueError"
                /\ UNCHANGED <<paths, stack, pathLength>>
           ELSE \E len \in lens :
                  /\ pathLength' = len
                  /\ paths' = [paths EXCEPT ![1].rooms = Append(@, Len(rs) - 1)]
                  /\ stack' = <<Frame(1, Len(rs) - 1, len, 0)>>
                  /\ pc' = "create_path"
  /\ UNCHANGED <<cfg, keys, attempt, curve, catalog, called>>

(* A walk that tries to branch at every room it places, the last included. *)
AlwaysBranching(length) == "optional"

(* `if length > 0` after `length -= 1`: branches are tried at the new room *)
(* only while the path still goes on.                                      *)
AfterPlacing(length) == IF length > 0 THEN "optional" ELSE "walk"

(* create_path, one iteration of `while length > 0` up to `length -= 1`.   *)
PlaceRoom ==
  /\ pc = "create_path"
  /\ Top.at = "walk"
  /\ Top.length > 0
  /\ LET room == rooms[Top.room + 1]
     IN \E nextPos \in FreePositions(rooms, room.x, room.y) :
          LET newIndex == Len(rooms)
              newRoom0 == [DungeonRoom EXCEPT !.depth = Top.depth,
                                              !.attempt = attempt]
              newRoom1 == set_door(newRoom0, OppositeDoor(nextPos[3]), TRUE)
              newRoom == [newRoom1 EXCEPT !.x = nextPos[1], !.y = nextPos[2]]
              rs1 == [rooms EXCEPT ![Top.room + 1] =
                                      set_door(room, nextPos[3], TRUE)]
              length == Top.length - 1
          IN /\ rooms' = add_room(rs1, newRoom)
             /\ paths' = [paths EXCEPT ![Top.path].rooms = Append(@, newIndex)]
             /\ keys' = LockDoor(keys, Top, newIndex, nextPos[3])
             /\ stack' = SetTop([Top EXCEPT
                                   !.prepareLocked = FALSE,
                                   !.room = newIndex,
                                   !.length = length,
                                   !.at = AfterPlacing(length)])
  /\ UNCHANGED <<cfg, pc, pathLength, attempt, curve, catalog, called>>

(* create_path: `if self.optionalRoomChance > 0 and rand(...) == 0`, up to *)
(* the recursive call for the optional branch.                             *)
OptionalBranch ==
  /\ pc = "create_path"
  /\ Top.at = "optional"
  /\ \E spawn \in IF cfg.optionalRoomChance > 0
                  THEN randIsZero(cfg.optionalRoomChance) ELSE {FALSE} :
       IF spawn
       THEN LET side == Len(paths) + 1
            IN /\ paths' = Append([paths EXCEPT ![Top.path].sidePaths =
                                                   Append(@, side)],
                                  [DungeonPath(TRUE) EXCEPT
                                     !.rooms = <<Top.room>>])
               /\ stack' = Append(SetTop([Top EXCEPT !.at = "inOptional"]),
                                  Frame(side, Top.room, 1, Top.depth + 1))
       ELSE /\ stack' = SetTop([Top EXCEPT !.at = "side"])
            /\ UNCHANGED paths
  /\ UNCHANGED <<cfg, pc, rooms, keys, pathLength, attempt, curve, catalog, called>>

(* `depth == 0`: only the main path starts gated side paths. *)
IsMainDepth(depth) == depth = 0

(* create_path: `if depth == 0 and self.sidePathChance > 0 and rand(...)   *)
(* == 0`, up to the recursive call for the gated side path.                *)
SidePath ==
  /\ pc = "create_path"
  /\ Top.at = "side"
  /\ \E spawn \in IF IsMainDepth(Top.depth) /\ cfg.sidePathChance > 0
                  THEN randIsZero(cfg.sidePathChance) ELSE {FALSE} :
       IF spawn
       THEN LET side == Len(paths) + 1
                lens == rand2(cfg.sidePathLength[1], cfg.sidePathLength[2])
            IN /\ paths' = Append([paths EXCEPT ![Top.path].sidePaths =
                                                   Append(@, side)],
                                  [DungeonPath(FALSE) EXCEPT
                                     !.rooms = <<Top.room>>])
               /\ IF lens = {}
                  THEN /\ pc' = "ValueError"
                       /\ UNCHANGED stack
                  ELSE \E l \in lens :
                         /\ stack' = Append(SetTop([Top EXCEPT !.at = "inSide"]),
                                            Frame(side, Top.room, l,
                                                  Top.depth + 1))
                         /\ pc' = pc
       ELSE /\ stack' = SetTop([Top EXCEPT !.at = "walk"])
            /\ UNCHANGED <<paths, pc>>
  /\ UNCHANGED <<cfg, rooms, keys, pathLength, attempt, curve, catalog, called>>

(* A caller that forgets the side path it has just built. *)
ResumeWithoutKey(caller, returned) ==
  IF caller.at = "inOptional"
  THEN [caller EXCEPT !.at = "side"]
  ELSE [caller EXCEPT !.at = "walk"]

(* The caller's frame after the recursive create_path has returned a room: *)
(* an optional branch goes on to the side path test; a side path sets      *)
(* prepareLocked and keyLocation and goes back to the while loop.          *)
Resume(caller, returned) ==
  IF caller.at = "inOptional"
  THEN [caller EXCEPT !.at = "side"]
  ELSE [caller EXCEPT !.prepareLocked = TRUE,
                      !.keyLocation = returned,
                      !.at = "walk"]

(* create_path: `return room` once length is 0, and what the caller does   *)
(* with the returned room.                                                 *)
ReturnRoom ==
  /\ pc = "create_path"
  /\ Top.at = "walk"
  /\ Top.length = 0
  /\ LET returned == Top.room
         rest == SubSeq(stack, 1, Len(stack) - 1)
     IN IF rest = <<>>
        THEN /\ stack' = rest
             /\ pc' = gen_map(catalog.layers, called).pc
             /\ called' = gen_map(catalog.layers, called).called
        ELSE LET resumed == Resume(rest[Len(rest)], returned)
             IN /\ stack' = [rest EXCEPT ![Len(rest)] = resumed]
                /\ pc' = pc
                /\ called' = called
  /\ UNCHANGED <<cfg, rooms, keys, paths, pathLength, attempt, curve, catalog>>

(* create_path: `if nextPos is None: return None`, propagated by every     *)
(* enclosing create_path, and the reset at the end of the loop body of     *)
(* process_dungeon.  The loop has no attempt counter; attempt counts the   *)
(* attempts up to MaxAttempts and stays there.                             *)
DeadEnd ==
  /\ pc = "create_path"
  /\ Top.at = "walk"
  /\ Top.length > 0
  /\ FreePositions(rooms, rooms[Top.room + 1].x, rooms[Top.room + 1].y) = {}
  /\ rooms' = ResetDungeon(rooms, keys, paths).rooms
  /\ keys' = ResetDungeon(rooms, keys, paths).keys
  /\ paths' = ResetDungeon(rooms, keys, paths).paths
  /\ stack' = <<>>
  /\ pc' = "process_dungeon"
  /\ attempt' = IF attempt < MaxAttempts THEN attempt + 1 ELSE attempt
  /\ UNCHANGED <<cfg, pathLength, curve, catalog, called>>

(* ------------------------- AssignRegionsLayer -------------------------- *)

IsLockedSide(ks, n, door) ==
  \E k \in 1..Len(ks) : ks[k].lockLocation = n /\ ks[k].lockedDoor = door


(* A partitioner that does not count locked doors. *)
RegionFromIgnoringLocks(ks, n, nRegion, d) == nRegion

(* The region a room takes from its resolved neighbour n, reached through  *)
(* the room's door d: the `for key in dungeon.keys` loop and the           *)
(* `if room.region == -1` after it.                                        *)
RegionFrom(ks, n, nRegion, d) ==
  IF IsLockedSide(ks, n, OppositeDoor(d)) THEN nRegion + 1 ELSE nRegion

(* Neighbour cells with west and east numbered the wrong way round. *)
nearMisnumbered(room) ==
  <<<<room.x - 1, room.y, 2>>, <<room.x, room.y - 1, 1>>,
    <<room.x + 1, room.y, 0>>, <<room.x, room.y + 1, 3>>>>

near(room) ==
  <<<<room.x - 1, room.y, 0>>, <<room.x, room.y - 1, 1>>,
    <<room.x + 1, room.y, 2>>, <<room.x, room.y + 1, 3>>>>

(* The `for near in [...]` loop for rooms[i], from its k-th element on.    *)
(* The loop does not stop at the first resolved neighbour: a later one     *)
(* whose key matches overwrites the region, a later one without a match    *)
(* leaves it.                                                              *)
RECURSIVE NearLoop(_, _, _, _)
NearLoop(rs, ks, i, k) ==
  IF k > 4 THEN rs
  ELSE LET room == rs[i]
           x == near(room)[k][1]
           y == near(room)[k][2]
           d == near(room)[k][3]
           n == get_room_at(rs, x, y)
       IN IF ~room.doors[d + 1] THEN NearLoop(rs, ks, i, k + 1)
          ELSE IF n = None THEN NearLoop(rs, ks, i, k + 1)
          ELSE IF rs[n + 1].region = 0 - 1 THEN NearLoop(rs, ks, i, k + 1)
          ELSE IF IsLockedSide(ks, n, OppositeDoor(d)) \/ room.region = 0 - 1
          THEN NearLoop([rs EXCEPT ![i].region =
                                     RegionFrom(ks, n, rs[n + 1].region, d)],
                        ks, i, k + 1)
          ELSE NearLoop(rs, ks, i, k + 1)

(* One pass of `for room in dungeon.rooms`, from rooms[i] on; a room       *)
(* resolved earlier in the pass is seen as resolved by the later ones.     *)
RECURSIVE RegionPass(_, _, _)
RegionPass(rs, ks, i) ==
  IF i > Len(rs) THEN rs
  ELSE IF rs[i].region > 0 - 1 THEN RegionPass(rs, ks, i + 1)
  ELSE RegionPass(NearLoop(rs, ks, i, 1), ks, i + 1)

(* `while changed`: passes are repeated until one changes nothing.         *)
RECURSIVE RegionFixpoint(_, _)
RegionFixpoint(rs, ks) ==
  LET next == RegionPass(rs, ks, 1)
  IN IF next = rs THEN rs ELSE RegionFixpoint(next, ks)

(* A start that puts the entrance in region 1. *)
ClearRegionsFromOne(rs, entrance) ==
  [i \in 1..Len(rs) |->
     [rs[i] EXCEPT !.region = IF i = entrance + 1 THEN 1 ELSE 0 - 1]]

(* `room.region = -1` for every room, then 0 for mainPath.rooms[0]. *)
ClearRegions(rs, entrance) ==
  [i \in 1..Len(rs) |->
     [rs[i] EXCEPT !.region = IF i = entrance + 1 THEN 0 ELSE 0 - 1]]

(* A partitioner that also writes each room's region to its depth. *)
AssignRegionsAndDepths(rs, ks, entrance) ==
  LET done == RegionFixpoint(ClearRegions(rs, entrance), ks)
  IN [i \in 1..Len(rs) |-> [done[i] EXCEPT !.depth = done[i].region]]

AssignRegions(rs, ks, entrance) ==
  RegionFixpoint(ClearRegions(rs, entrance), ks)

AssignRegionsLayer ==
  /\ pc = "regions"
  /\ rooms' = AssignRegions(rooms, keys, paths[1].rooms[1])
  /\ pc' = gen_map(catalog.layers, called).pc
  /\ called' = gen_map(catalog.layers, called).called
  /\ UNCHANGED <<cfg, keys, paths, stack, pathLength, attempt, curve, catalog>>

(* ----------------------- AssignDifficultiesLayer ----------------------- *)

(* Exact rational arithmetic for the float expressions of the curve.       *)
RECURSIVE GCD(_, _)
GCD(a, b) == IF b = 0 THEN a ELSE GCD(b, a % b)

Abs(a) == IF a < 0 THEN 0 - a ELSE a

Rat(n, d) ==
  LET sn == IF d < 0 THEN 0 - n ELSE n
      sd == Abs(d)
      g == GCD(Abs(sn), sd)
  IN <<sn \div g, sd \div g>>

RInt(n) == <<n, 1>>
RAdd(a, b) == Rat(a[1] * b[2] + b[1] * a[2], a[2] * b[2])
RSub(a, b) == Rat(a[1] * b[2] - b[1] * a[2], a[2] * b[2])
RMul(a, b) == Rat(a[1] * b[1], a[2] * b[2])
RDiv(a, b) == Rat(a[1] * b[2], a[2] * b[1])
RLe(a, b) == a[1] * b[2] <= b[1] * a[2]
RMin(a, b) == IF RLe(a, b) THEN a ELSE b
RMax(a, b) == IF RLe(a, b) THEN b ELSE a

(* Position in a 1-based sequence of length len of Python's list[i];       *)
(* outside 1..len the subscript raises IndexError.                         *)
PyIndex(len, i) == IF i >= 0 THEN i + 1 ELSE len + i + 1

region_count(rs) == IF Len(rs) = 0 THEN 0 ELSE rs[Len(rs)].region + 1

(* The first loop of process_dungeon, from rooms[i] on: rooms are numbered *)
(* in creation order and the number of the first room of each region is    *)
(* written to regionValues.                                                *)
RECURSIVE NumberRooms(_, _, _, _, _)
NumberRooms(rs, i, diff, currentRegion, regionValues) ==
  IF i > Len(rs)
  THEN [rooms |-> rs, diff |-> diff, regionValues |-> regionValues,
        error |-> "none"]
  ELSE LET changes == rs[i].region # currentRegion
           at == PyIndex(Len(regionValues), rs[i].region)
       IN IF changes /\ at \notin 1..Len(regionValues)
          THEN [rooms |-> rs, diff |-> diff, regionValues |-> regionValues,
                error |-> "IndexError"]
          ELSE NumberRooms([rs EXCEPT ![i].difficulty = RInt(diff)],
                           i + 1, diff + 1, rs[i].region,
                           IF changes
                           THEN [regionValues EXCEPT ![at] = diff]
                           ELSE regionValues)

(* The difficulty of one room: lines 890 to 896. *)
CurveValue(n, x1, x2, diff, layer, draw) ==
  LET t == RDiv(RSub(n, RInt(x1)), RInt(x2 - x1))
      carry == RMul(layer.dropoff, RInt(x1))
      d1 == RAdd(RMul(RMul(t, t), RSub(RInt(x2), carry)), carry)
      d2 == RAdd(RMul(RDiv(d1, RInt(diff)),
                      RSub(RInt(1), layer.startingPoints)),
                 layer.startingPoints)
      d3 == RAdd(d2, RSub(RMul(RMul(draw, RInt(2)), layer.noise),
                          layer.noise))
  IN RMax(RInt(0), RMin(RInt(1), d3))

(* The second loop of process_dungeon, from rooms[i] on; draws[i] is the   *)
(* value random() returns for rooms[i].  A zero divisor raises             *)
(* ZeroDivisionError and leaves the rooms from rooms[i] on numbered.       *)
RECURSIVE ApplyCurve(_, _, _, _, _, _)
ApplyCurve(rs, i, regionValues, diff, layer, draws) ==
  IF i > Len(rs) THEN [rooms |-> rs, error |-> "none"]
  ELSE LET a1 == PyIndex(Len(regionValues), rs[i].region)
           a2 == PyIndex(Len(regionValues), rs[i].region + 1)
       IN IF a1 \notin 1..Len(regionValues) \/ a2 \notin 1..Len(regionValues)
          THEN [rooms |-> rs, error |-> "IndexError"]
          ELSE IF regionValues[a2] - regionValues[a1] = 0 \/ diff = 0
          THEN [rooms |-> rs, error |-> "ZeroDivisionError"]
          ELSE ApplyCurve(
                 [rs EXCEPT ![i].difficulty =
                    CurveValue(rs[i].difficulty, regionValues[a1],
                               regionValues[a2], diff, layer, draws[i])],
                 i + 1, regionValues, diff, layer, draws)

AssignDifficulties(rs, layer, draws) ==
  LET numbered == NumberRooms(rs, 1, 0, 0,
                              [k \in 1..(region_count(rs) + 1) |-> 0])
      diff == numbered.diff - 1
      regionValues == [numbered.regionValues EXCEPT
                         ![Len(numbered.regionValues)] = diff]
  IN IF numbered.error # "none"
     THEN [rooms |-> numbered.rooms, error |-> numbered.error]
     ELSE ApplyCurve(numbered.rooms, 1, regionValues, diff, layer, draws)

(* The constructor arguments of AssignDifficultiesLayer and the values of  *)
(* random().  The arguments are first read when the layer runs, so they    *)
(* are drawn there.  Noise is drawn per room; dungeons of more than        *)
(* MaxNoisyRooms rooms are explored with noise = 0 only.                   *)
Dropoffs == {<<0, 1>>, <<1, 2>>}
Noises == {<<0, 1>>, <<1, 4>>}
StartingPoints == {<<0, 1>>, <<1, 4>>}
RandomDraws == {<<0, 1>>, <<3, 4>>}
NoCurve == [dropoff |-> <<0, 1>>, noise |-> <<0, 1>>,
            startingPoints |-> <<0, 1>>]

AssignDifficultiesLayer ==
  /\ pc = "difficulties"
  /\ \E dropoff \in Dropoffs, noise \in Noises, sp \in StartingPoints :
       /\ noise = <<0, 1>> \/ Len(rooms) <= MaxNoisyRooms
       /\ \E draws \in [1..Len(rooms) ->
                          IF noise = <<0, 1>> THEN {<<0, 1>>}
                          ELSE RandomDraws] :
            LET c == [dropoff |-> dropoff, noise |-> noise,
                      startingPoints |-> sp]
            IN \E result \in {AssignDifficulties(rooms, c, draws)} :
                 /\ curve' = c
                 /\ rooms' = result.rooms
                 /\ pc' = IF result.error = "none"
                          THEN gen_map(catalog.layers, called).pc
                          ELSE result.error
                 /\ called' = IF result.error = "none"
                              THEN gen_map(catalog.layers, called).called
                              ELSE called
  /\ UNCHANGED <<cfg, keys, paths, stack, pathLength, attempt, catalog>>

(* --------------------------- AssignRoomTypes ---------------------------- *)

RoomType(name, isEntrance, isExit, difficulty, priority) ==
  [name |-> name, isEntrance |-> isEntrance, isExit |-> isExit,
   difficulty |-> difficulty, priority |-> priority]

(* The positions 1..n in list order, for filter() over a list of types. *)
Positions(n) == [i \in 1..n |-> i]

(* random_room, given the positions in roomTypes of the types its search   *)
(* accepts (remaining): the types weighted[rand(count)] can return; a type *)
(* is in weighted once per unit of priority.  The set is empty exactly     *)
(* when count = 0 and GeneratorError is raised.                            *)
random_room(roomTypes, remaining) ==
  {x \in remaining : roomTypes[x].priority > 0}

(* A type filter that lets exit types through. *)
IsGenericOrExit(roomType) == ~roomType.isEntrance

(* lambda x: not x.isEntrance and not x.isExit *)
IsGeneric(roomType) == ~roomType.isEntrance /\ ~roomType.isExit

(* A comparison that also replaces the choice on equal difficulty. *)
IsLowerOrEqual(a, b) == RLe(a, b)

(* roomType.difficulty < room.type.difficulty *)
IsLower(a, b) == ~RLe(b, a)

(* `for roomType in available`, from available[k] on, with room.type = best. *)
RECURSIVE Lowest(_, _, _, _)
Lowest(roomTypes, available, k, best) ==
  IF k > Len(available) THEN best
  ELSE Lowest(roomTypes, available, k + 1,
              IF IsLower(roomTypes[available[k]].difficulty,
                         roomTypes[best].difficulty)
              THEN available[k] ELSE best)

(* The body of `for room in dungeon.rooms` for a room without a type: the  *)
(* types it can be given; empty when GeneratorError is raised at line 940. *)
TypesFor(roomTypes, room) ==
  LET drawn == random_room(roomTypes,
                 {x \in 1..Len(roomTypes) :
                    /\ IsGeneric(roomTypes[x])
                    /\ RLe(roomTypes[x].difficulty, room.difficulty)})
      available == SelectSeq(Positions(Len(roomTypes)),
                             LAMBDA x : IsGeneric(roomTypes[x]))
  IN IF drawn # {} THEN drawn
     ELSE IF Len(available) = 0 THEN {}
     ELSE {Lowest(roomTypes, available, 1, available[1])}

(* `for room in dungeon.rooms` from rooms[i] on: every outcome of the draws. *)
RECURSIVE AssignTypesFrom(_, _, _)
AssignTypesFrom(rs, roomTypes, i) ==
  IF i > Len(rs) THEN {[rooms |-> rs, error |-> "none"]}
  ELSE IF rs[i].type # 0 THEN AssignTypesFrom(rs, roomTypes, i + 1)
  ELSE LET types == TypesFor(roomTypes, rs[i])
       IN IF types = {} THEN {[rooms |-> rs, error |-> "GeneratorError"]}
          ELSE UNION {AssignTypesFrom([rs EXCEPT ![i].type = t], roomTypes, i + 1)
                        : t \in types}

(* AssignRoomTypes.process_dungeon: every outcome, with the rooms as they   *)
(* are when it returns or raises.                                          *)
AssignTypes(rs, mainPath, roomTypes) ==
  LET entrances == random_room(roomTypes,
                     {x \in 1..Len(roomTypes) : roomTypes[x].isEntrance})
      exits == random_room(roomTypes,
                 {x \in 1..Len(roomTypes) : roomTypes[x].isExit})
      first == mainPath.rooms[1] + 1
      last == mainPath.rooms[Len(mainPath.rooms)] + 1
  IN IF entrances = {} THEN {[rooms |-> rs, error |-> "GeneratorError"]}
     ELSE UNION {
       LET entered == [rs EXCEPT ![first].type = e]
       IN IF exits = {} THEN {[rooms |-> entered, error |-> "GeneratorError"]}
          ELSE UNION {AssignTypesFrom([entered EXCEPT ![last].type = x],
                                      roomTypes, 1) : x \in exits}
       : e \in entrances}

AssignRoomTypes ==
  /\ pc = "types"
  /\ \E result \in AssignTypes(rooms, paths[1], catalog.roomTypes) :
       /\ rooms' = result.rooms
       /\ pc' = IF result.error = "none"
                THEN gen_map(catalog.layers, called).pc
                ELSE result.error
       /\ called' = IF result.error = "none"
                    THEN gen_map(catalog.layers, called).called
                    ELSE called
  /\ UNCHANGED <<cfg, keys, paths, stack, pathLength, attempt, curve, catalog>>

(* ----------------------------- EnemiesLayer ----------------------------- *)

EnemyType(name, priority, difficulty, maxCount, endOfRegion, enemy, room) ==
  [name |-> name, priority |-> priority, difficulty |-> difficulty,
   maxCount |-> maxCount, endOfRegion |-> endOfRegion,
   requiresEnemy |-> enemy, requiresRoom |-> room]

(* The number of times the enemy type at position enemy is in the list. *)
CountOf(enemies, enemy) ==
  Cardinality({k \in 1..Len(enemies) : enemies[k] = enemy})

(* A room that takes one more than maxCount. *)
has_room_for_one_more(enemyTypes, enemies, enemy) ==
  CountOf(enemies, enemy) <= enemyTypes[enemy].maxCount

(* DungeonRoom.has_room_for, on the room's enemies. *)
has_room_for(enemyTypes, enemies, enemy) ==
  CountOf(enemies, enemy) < enemyTypes[enemy].maxCount

(* Dungeon.is_end_of_region, for the room with index room. *)
is_end_of_region(ks, mainPath, room) ==
  \/ \E k \in 1..Len(ks) : ks[k].lockLocation = room
  \/ room = mainPath.rooms[Len(mainPath.rooms)]

(* A check that lets every enemy in. *)
no_enemy_requirements(enemyTypes, enemy, enemies) == TRUE

meets_enemy_requirements(enemyTypes, enemy, enemies) ==
  \/ enemyTypes[enemy].requiresEnemy = {}
  \/ \E k \in 1..Len(enemies) :
       enemyTypes[enemies[k]].name \in enemyTypes[enemy].requiresEnemy

meets_room_type_requirements(roomTypes, enemyTypes, enemy, room) ==
  \/ enemyTypes[enemy].requiresRoom = {}
  \/ /\ room.type # 0
     /\ roomTypes[room.type].name \in enemyTypes[enemy].requiresRoom

(* random_enemy, given the positions in enemyTypes of the types its search *)
(* accepts: the enemy types weighted[rand(count)] can return; empty        *)
(* exactly when GeneratorError is raised.                                  *)
random_enemy(enemyTypes, remaining) ==
  {x \in remaining : enemyTypes[x].priority > 0}

(* A budget test that lets every enemy through. *)
AnyCost(cost, diff) == TRUE

(* x.difficulty <= diff *)
WithinBudget(cost, diff) == RLe(cost, diff)

(* A loop that goes on when nothing is left. *)
BudgetNeverSpent(diff) == TRUE

(* `while diff > 0` *)
BudgetLeft(diff) == ~RLe(diff, RInt(0))

(* `while diff > 0` for one room: every list of enemies the room can end   *)
(* up with, given the enemies placed so far and the budget left.           *)
RECURSIVE PlaceEnemies(_, _, _, _, _, _)
PlaceEnemies(roomTypes, enemyTypes, room, endOfRegion, enemies, diff) ==
  IF ~BudgetLeft(diff) THEN {enemies}
  ELSE LET drawn == random_enemy(enemyTypes,
                      {x \in 1..Len(enemyTypes) :
                        /\ WithinBudget(enemyTypes[x].difficulty, diff)
                        /\ has_room_for(enemyTypes, enemies, x)
                        /\ (~enemyTypes[x].endOfRegion \/ endOfRegion)
                        /\ meets_enemy_requirements(enemyTypes, x, enemies)
                        /\ meets_room_type_requirements(roomTypes, enemyTypes,
                                                        x, room)})
       IN IF drawn = {} THEN {enemies}
          ELSE UNION {PlaceEnemies(roomTypes, enemyTypes, room, endOfRegion,
                                   Append(enemies, e),
                                   RSub(diff, enemyTypes[e].difficulty))
                        : e \in drawn}

(* `for room in dungeon.rooms` from rooms[i] on: every outcome. *)
RECURSIVE PlaceEnemiesFrom(_, _, _, _, _, _)
PlaceEnemiesFrom(rs, ks, mainPath, roomTypes, enemyTypes, i) ==
  IF i > Len(rs) THEN {rs}
  ELSE IF rs[i].type = 0
          \/ roomTypes[rs[i].type].isEntrance \/ roomTypes[rs[i].type].isExit
       THEN PlaceEnemiesFrom(rs, ks, mainPath, roomTypes, enemyTypes, i + 1)
  ELSE UNION {PlaceEnemiesFrom([rs EXCEPT ![i].enemies = es], ks, mainPath,
                               roomTypes, enemyTypes, i + 1)
                : es \in PlaceEnemies(roomTypes, enemyTypes, rs[i],
                           is_end_of_region(ks, mainPath, rs[i].index),
                           rs[i].enemies,
                           RSub(rs[i].difficulty,
                                roomTypes[rs[i].type].difficulty))}

EnemiesLayer ==
  /\ pc = "enemies"
  /\ \E result \in PlaceEnemiesFrom(rooms, keys, paths[1], catalog.roomTypes,
                                    catalog.enemyTypes, 1) :
       rooms' = result
  /\ pc' = gen_map(catalog.layers, called).pc
  /\ called' = gen_map(catalog.layers, called).called
  /\ UNCHANGED <<cfg, keys, paths, stack, pathLength, attempt, curve, catalog>>

(* ------------------------------ catalogs ------------------------------- *)

Entrance0 == RoomType("Entrance", TRUE, FALSE, <<0, 1>>, 1)
Boss == RoomType("Boss", FALSE, TRUE, <<0, 1>>, 1)
Hall == RoomType("Hall", FALSE, FALSE, <<0, 1>>, 1)
Vault == RoomType("Vault", FALSE, FALSE, <<1, 2>>, 1)
Crypt == RoomType("Crypt", FALSE, FALSE, <<1, 2>>, 1)
Closet == RoomType("Closet", FALSE, FALSE, <<0, 1>>, 0)

(* Room type lists: a free and a costly generic type; two generic types of *)
(* the same cost; a free generic type that is never drawn; and lists       *)
(* without a generic, an entrance or an exit type.                         *)
RoomCatalogs ==
  {<<Entrance0, Boss, Hall, Vault>>,
   <<Entrance0, Boss, Vault, Crypt>>,
   <<Entrance0, Boss, Vault, Closet>>,
   <<Entrance0, Boss>>,
   <<Boss, Hall>>,
   <<Entrance0, Hall>>}

Rodent == EnemyType("Rat", 1, <<1, 4>>, 2, FALSE, {}, {})
Shaman == EnemyType("Shaman", 1, <<1, 4>>, 1, FALSE, {"Rat"}, {})
Warden == EnemyType("Warden", 1, <<1, 4>>, 1, TRUE, {}, {})
Ghost == EnemyType("Ghost", 1, <<0, 1>>, 2, FALSE, {}, {})
Sentry == EnemyType("Sentry", 1, <<1, 4>>, 1, FALSE, {}, {"Hall"})

Pack == <<Rodent, Shaman, Warden>>
Haunt == <<Ghost, Sentry>>

FullPipeline ==
  <<"BranchingPathLayer", "AssignRegionsLayer", "AssignDifficultiesLayer",
    "AssignRoomTypes", "EnemiesLayer">>

(* Types and enemies on the rooms as BranchingPathLayer leaves them. *)
ShortPipeline == <<"BranchingPathLayer", "AssignRoomTypes", "EnemiesLayer">>

Catalogs ==
  [layers : {FullPipeline}, roomTypes : RoomCatalogs, enemyTypes : {Pack}]
    \cup [layers : {FullPipeline, ShortPipeline},
          roomTypes : {<<Entrance0, Boss, Hall, Vault>>},
          enemyTypes : {Pack, Haunt}]
    \cup [layers : {FullPipeline},
          roomTypes : {<<Entrance0, Boss, Hall, Vault>>},
          enemyTypes : {<<>>}]

(* Small dungeons for the content layers: one to three main-path rooms     *)
(* with a side path or an optional branch at the room before the exit,     *)
(* and four main-path rooms with side paths, of one room or of none, that  *)
(* may or may not be taken.                                                *)
ContentConfigs ==
  [mainPathLength : {<<0, 1>>, <<1, 3>>},
   sidePathLength : {<<1, 2>>},
   sidePathChance : {0, 1},
   optionalRoomChance : {0}]
    \cup [mainPathLength : {<<1, 3>>},
          sidePathLength : {<<1, 2>>},
          sidePathChance : {0},
          optionalRoomChance : {1}]
    \cup [mainPathLength : {<<3, 4>>},
          sidePathLength : {<<0, 1>>, <<1, 2>>},
          sidePathChance : {2},
          optionalRoomChance : {0}]

(* The pipeline of get_dungeon_config: the three structural layers. *)
StructureOnly ==
  [layers |-> <<"BranchingPathLayer", "AssignRegionsLayer",
                "AssignDifficultiesLayer">>,
   roomTypes |-> <<>>, enemyTypes |-> <<>>]

Init ==
  /\ cfg \in Configs
  /\ pc = "process_dungeon"
  /\ rooms = <<>>
  /\ keys = <<>>
  /\ paths = <<DungeonPath(FALSE)>>
  /\ stack = <<>>
  /\ pathLength = None
  /\ attempt = 1
  /\ curve = NoCurve
  /\ catalog = StructureOnly
  /\ called = <<catalog.layers[1]>>

Next ==
  \/ ProcessDungeon
  \/ PlaceRoom
  \/ OptionalBranch
  \/ SidePath
  \/ ReturnRoom
  \/ DeadEnd
  \/ AssignRegionsLayer
  \/ AssignDifficultiesLayer

Spec == Init /\ [][Next]_vars

(* The five layers (or the short pipeline) on small dungeons, with the     *)
(* room and enemy catalogs above.                                          *)
InitContent ==
  /\ cfg \in ContentConfigs
  /\ pc = "process_dungeon"
  /\ rooms = <<>>
  /\ keys = <<>>
  /\ paths = <<DungeonPath(FALSE)>>
  /\ stack = <<>>
  /\ pathLength = None
  /\ attempt = 1
  /\ curve = NoCurve
  /\ catalog \in Catalogs
  /\ called = <<catalog.layers[1]>>

(* No walk of ContentConfigs finds itself without a free cell, so the      *)
(* restart of process_dungeon has no step here.                            *)
NextContent ==
  \/ ProcessDungeon
  \/ PlaceRoom
  \/ OptionalBranch
  \/ SidePath
  \/ ReturnRoom
  \/ AssignRegionsLayer
  \/ AssignDifficultiesLayer
  \/ AssignRoomTypes
  \/ EnemiesLayer

SpecContent == InitContent /\ [][NextContent]_vars

(* ============================== properties ============================= *)

(* BranchingPathLayer.process_dungeon has returned normally. *)
PathBuilt ==
  pc \in {"regions", "difficulties", "types", "enemies", "done",
          "ZeroDivisionError", "IndexError", "GeneratorError"}

(* gen_map has called process_dungeon of the layer and it has returned. *)
Returned(layer) ==
  \E k \in 1..Len(called) :
    called[k] = layer /\ (k < Len(called) \/ pc = "done")

(* AssignRegionsLayer.process_dungeon has returned. *)
RegionsAssigned == Returned("AssignRegionsLayer")

RoomIds == 0..(Len(rooms) - 1)

Entrance == paths[1].rooms[1]

(* The cell next to (x, y) in direction d: 0 west, 1 north, 2 east, 3 south. *)
CellAt(x, y, d) ==
  IF d = 0 THEN <<x - 1, y>>
  ELSE IF d = 1 THEN <<x, y - 1>>
  ELSE IF d = 2 THEN <<x + 1, y>>
  ELSE <<x, y + 1>>

(* The rooms standing on the cell next to room i in direction d. *)
RoomsAcross(i, d) ==
  {j \in RoomIds :
     <<rooms[j + 1].x, rooms[j + 1].y>> =
       CellAt(rooms[i + 1].x, rooms[i + 1].y, d)}

DoorCount(i) == Cardinality({d \in 0..3 : rooms[i + 1].doors[d + 1]})

(* ---- C1 ---- *)

NoSharedCell ==
  \A i, j \in RoomIds :
    i # j => <<rooms[i + 1].x, rooms[i + 1].y>> # <<rooms[j + 1].x, rooms[j + 1].y>>

(* A step of create_path that appends a room: the new room stands on a     *)
(* cell next to the room the walk was at, and no room stood there before.  *)
PlacedOnFreeAdjacentCell ==
  (pc = "create_path" /\ Len(rooms') = Len(rooms) + 1) =>
    LET from == rooms[stack[Len(stack)].room + 1]
        new == rooms'[Len(rooms')]
    IN /\ \E d \in 0..3 : <<new.x, new.y>> = CellAt(from.x, from.y, d)
       /\ \A i \in 1..Len(rooms) : <<rooms[i].x, rooms[i].y>> # <<new.x, new.y>>

(* C1: after BranchingPathLayer.process_dungeon returns no two distinct    *)
(* rooms have the same (x, y), and every room the walk adds is placed on a *)
(* cell that is grid-adjacent to the room it was created from and was      *)
(* unoccupied at placement time.                                           *)
C1_NoTwoRoomsShareACell ==
  /\ [](PathBuilt => NoSharedCell)
  /\ [][PlacedOnFreeAdjacentCell]_vars

(* A finished dungeon in which a room has a neighbouring cell occupied by  *)
(* a room it has no door to: the walk had to avoid that cell.              *)
C1_Witness ==
  /\ PathBuilt
  /\ \E i \in RoomIds, d \in 0..3 :
       RoomsAcross(i, d) # {} /\ ~rooms[i + 1].doors[d + 1]

(* ---- C2 ---- *)

(* C2: in every generated dungeon, A.doors[d] is true if and only if a     *)
(* room B stands on the cell adjacent to A in direction d and              *)
(* B.doors[(d+2) mod 4] is true; no open door points at an empty cell.     *)
C2_DoorsAreMirrored ==
  PathBuilt =>
    \A i \in RoomIds, d \in 0..3 :
      rooms[i + 1].doors[d + 1] <=>
        \E j \in RoomsAcross(i, d) : rooms[j + 1].doors[((d + 2) % 4) + 1]

(* A finished dungeon with a room that has three open doors. *)
C2_Witness ==
  PathBuilt /\ \E i \in RoomIds : DoorCount(i) >= 3

(* ---- C3 ---- *)

(* C3: for every main-path length range (min, max), the degenerate range   *)
(* min = max included, process_dungeon completes and the number of rooms   *)
(* of the main path is a length L with min <= L <= max.                    *)
C3_MainPathLengthInRange ==
  /\ ~(pc = "ValueError" /\ stack = <<>>)
  /\ PathBuilt =>
       Len(paths[1].rooms) \in cfg.mainPathLength[1]..cfg.mainPathLength[2]

(* ---- C4 ---- *)

IsScenario ==
  /\ cfg.mainPathLength = ScenarioRange
  /\ cfg.sidePathChance = 0
  /\ cfg.optionalRoomChance = 0

(* C4: with mainPathLength = (5,5), sidePathChance = 0 and                 *)
(* optionalRoomChance = 0 generation yields a dungeon of exactly 5 rooms,  *)
(* no keys, no side paths, every room at depth 0 with at most two doors.   *)
C4_ScenarioIsAChainOfFive ==
  (IsScenario /\ pc \notin {"process_dungeon", "create_path"}) =>
    /\ PathBuilt
    /\ Len(rooms) = 5
    /\ keys = <<>>
    /\ Len(paths) = 1
    /\ \A i \in RoomIds : rooms[i + 1].depth = 0 /\ DoorCount(i) <= 2

(* ---- C5 ---- *)

(* The door d of room i is recorded as the locked door of a key. *)
IsLock(i, d) ==
  \E k \in 1..Len(keys) : keys[k].lockLocation = i /\ keys[k].lockedDoor = d

(* Locked doors crossed when stepping from room i through its door d into *)
(* room j: the doorway is locked if either side of it is a recorded lock.  *)
CrossingCost(i, d, j) ==
  IF IsLock(i, d) \/ IsLock(j, (d + 2) % 4) THEN 1 ELSE 0

Unreached == Len(rooms) + 1

(* One round of relaxation of the lock counts over all open doors. *)
Relax(dist) ==
  [j \in RoomIds |->
     LET via == UNION {{dist[i] + CrossingCost(i, d, j) :
                          d \in {b \in 0..3 : /\ rooms[i + 1].doors[b + 1]
                                               /\ j \in RoomsAcross(i, b)}} :
                       i \in {a \in RoomIds : dist[a] < Unreached}}
         all == via \cup {dist[j]}
     IN CHOOSE m \in all : \A o \in all : m <= o]

RECURSIVE RelaxAll(_)
RelaxAll(dist) ==
  LET next == Relax(dist)
  IN IF next = dist THEN dist ELSE RelaxAll(next)

(* The least number of locked doors crossed on a door-path from the        *)
(* entrance to each room.                                                  *)
LockDistance ==
  RelaxAll([j \in RoomIds |-> IF j = Entrance THEN 0 ELSE Unreached])

Grow(reached, a, d) ==
  reached \cup
    {j \in RoomIds :
       \E i \in reached, b \in 0..3 :
         /\ rooms[i + 1].doors[b + 1]
         /\ j \in RoomsAcross(i, b)
         /\ ~(i = a /\ b = d)
         /\ ~(j = a /\ (b + 2) % 4 = d)}

RECURSIVE GrowAll(_, _, _)
GrowAll(reached, a, d) ==
  LET next == Grow(reached, a, d)
  IN IF next = reached THEN reached ELSE GrowAll(next, a, d)

ReachableWithout(a, d) == GrowAll({Entrance}, a, d)

(* C6: the keyLocation of every DungeonKey is reachable from the entrance  *)
(* through open doors without crossing the key's own locked door, and      *)
(* after region assignment keyLocation.region <= lockLocation.region.      *)
C6_NoKeyBehindItsOwnLock ==
  /\ PathBuilt =>
       \A k \in 1..Len(keys) :
         keys[k].keyLocation \in
           ReachableWithout(keys[k].lockLocation, keys[k].lockedDoor)
  /\ RegionsAssigned =>
       \A k \in 1..Len(keys) :
         rooms[keys[k].keyLocation + 1].region
           <= rooms[keys[k].lockLocation + 1].region

(* Regions are assigned in a dungeon with a key lying at the end of a side *)
(* path, away from the room that has the lock.                             *)
C6_Witness ==
  /\ RegionsAssigned
  /\ \E k \in 1..Len(keys) : keys[k].keyLocation # keys[k].lockLocation

(* ---- C7 ---- *)

LastOf(seq) == seq[Len(seq)]

(* C7 as stated: for every DungeonKey the locked door is open, a room      *)
(* stands across it, and that room is the first room of the side path      *)
(* whose last room is the keyLocation.                                     *)
C7_LockOpensIntoSidePath ==
  PathBuilt =>
    \A k \in 1..Len(keys) :
      /\ rooms[keys[k].lockLocation + 1].doors[keys[k].lockedDoor + 1]
      /\ \E across \in RoomsAcross(keys[k].lockLocation, keys[k].lockedDoor) :
           \E p \in 2..Len(paths) :
             /\ LastOf(paths[p].rooms) = keys[k].keyLocation
             /\ paths[p].rooms[1] = across

(* C7 amended: for every DungeonKey the locked door is open, a room stands *)
(* across it, that room is the main-path room that follows lockLocation,   *)
(* and lockLocation is the first room of a non-optional side path whose    *)
(* last room is the keyLocation.                                           *)
C7_LockFollowsSidePath ==
  PathBuilt =>
    \A k \in 1..Len(keys) :
      /\ rooms[keys[k].lockLocation + 1].doors[keys[k].lockedDoor + 1]
      /\ \E across \in RoomsAcross(keys[k].lockLocation, keys[k].lockedDoor) :
           \E m \in 1..(Len(paths[1].rooms) - 1) :
             /\ paths[1].rooms[m] = keys[k].lockLocation
             /\ paths[1].rooms[m + 1] = across
      /\ \E p \in 2..Len(paths) :
           /\ ~paths[p].optional
           /\ paths[p].rooms[1] = keys[k].lockLocation
           /\ LastOf(paths[p].rooms) = keys[k].keyLocation

(* A finished dungeon with a key at the end of a side path of two rooms or *)
(* more beyond the room it branches from.                                  *)
C7_Witness ==
  /\ PathBuilt
  /\ \E k \in 1..Len(keys), p \in 2..Len(paths) :
       /\ LastOf(paths[p].rooms) = keys[k].keyLocation
       /\ ~paths[p].optional
       /\ Len(paths[p].rooms) >= 3

(* ---- C8 ---- *)

InUnitInterval(q) == RLe(RInt(0), q) /\ RLe(q, RInt(1))

(* C8: AssignDifficultiesLayer.process_dungeon completes on every dungeon  *)
(* the two layers before it can produce (no division by a zero             *)
(* regionStart[r+1] - regionStart[r]), and leaves every room with          *)
(* 0 <= difficulty <= 1.                                                   *)
C8_DifficultiesAssigned ==
  /\ pc # "ZeroDivisionError"
  /\ pc = "done" => \A i \in RoomIds : InUnitInterval(rooms[i + 1].difficulty)

(* ---- C10 ---- *)

WalkIsStuck ==
  /\ pc = "create_path"
  /\ stack[Len(stack)].at = "walk"
  /\ stack[Len(stack)].length > 0
  /\ LET at == rooms[stack[Len(stack)].room + 1]
     IN \A d \in 0..3 :
          \E i \in 1..Len(rooms) :
            <<rooms[i].x, rooms[i].y>> = CellAt(at.x, at.y, d)

(* A walk with no free adjacent cell, at whatever depth, makes             *)
(* process_dungeon drop rooms, keys and mainPath together.                 *)
FailureDiscardsEverything ==
  WalkIsStuck =>
    /\ pc' = "process_dungeon"
    /\ rooms' = <<>>
    /\ keys' = <<>>
    /\ Len(paths') = 1
    /\ paths'[1] = [rooms |-> <<>>, sidePaths |-> <<>>, optional |-> FALSE]

(* The iteration of process_dungeon after a failure starts from a single   *)
(* entrance at the origin.                                                 *)
RestartsFromFreshEntrance ==
  (pc = "process_dungeon" /\ attempt > 1) =>
    /\ Len(rooms') = 1
    /\ rooms'[1].x = 0 /\ rooms'[1].y = 0 /\ rooms'[1].index = 0

(* Everything in the dungeon was created in the attempt that succeeded. *)
OnlyLastAttempt ==
  /\ \A i \in 1..Len(rooms) :
       rooms[i].index = i - 1 /\ rooms[i].attempt = attempt
  /\ \A k \in 1..Len(keys) :
       keys[k].keyLocation \in RoomIds /\ keys[k].lockLocation \in RoomIds
  /\ \A p \in 1..Len(paths) :
       /\ \A r \in 1..Len(paths[p].rooms) : paths[p].rooms[r] \in RoomIds
       /\ \A q \in 1..Len(paths[p].sidePaths) :
            paths[p].sidePaths[q] \in 2..Len(paths)
  /\ \A i \in RoomIds :
       \E p \in 1..Len(paths) :
         \E r \in 1..Len(paths[p].rooms) : paths[p].rooms[r] = i

(* C10: a walk that finds no free adjacent cell at any depth makes         *)
(* process_dungeon discard rooms, keys and mainPath together and start     *)
(* again from one fresh entrance at the origin; the dungeon finally        *)
(* returned holds only rooms, keys and paths of the successful attempt,    *)
(* with rooms[i].index = i.                                                *)
C10_FailedAttemptIsDiscarded ==
  /\ [][FailureDiscardsEverything]_vars
  /\ [][RestartsFromFreshEntrance]_vars
  /\ [](PathBuilt => OnlyLastAttempt)

(* A dungeon finished in a second attempt, after the first one failed. *)
C10_Witness ==
  PathBuilt /\ attempt = 2 /\ Len(rooms) >= 3

(* ---- C11 ---- *)

ExitRoom == paths[1].rooms[Len(paths[1].rooms)]

TypeOf(i) == catalog.roomTypes[rooms[i + 1].type]

EveryRoomHasAType == \A i \in RoomIds : rooms[i + 1].type # 0

TerminalTypesByPosition ==
  /\ TypeOf(Entrance).isEntrance
  /\ TypeOf(ExitRoom).isExit
  /\ \A i \in RoomIds \ {Entrance, ExitRoom} :
       ~TypeOf(i).isEntrance /\ ~TypeOf(i).isExit

(* C11 as stated: after AssignRoomTypes.process_dungeon every room has a   *)
(* type; the entrance's type is an entrance type, the exit's type an exit  *)
(* type, and the type of every other room is neither.                      *)
C11_TerminalRoomsTyped ==
  Returned("AssignRoomTypes") =>
    EveryRoomHasAType /\ TerminalTypesByPosition

(* C11 amended: after AssignRoomTypes.process_dungeon every room has a     *)
(* type; when the main path has at least two rooms the entrance's type is  *)
(* an entrance type, the exit's type an exit type and the type of every    *)
(* other room is neither; the only room of a one-room dungeon, which is    *)
(* both mainPath.rooms[0] and mainPath.rooms[-1], has an exit type.        *)
C11_TerminalRoomsTypedWhenDistinct ==
  Returned("AssignRoomTypes") =>
    /\ EveryRoomHasAType
    /\ Len(paths[1].rooms) >= 2 => TerminalTypesByPosition
    /\ Len(paths[1].rooms) = 1 => Len(rooms) = 1 /\ TypeOf(Entrance).isExit

C11_Witness ==
  /\ Returned("AssignRoomTypes")
  /\ Len(paths[1].rooms) >= 2
  /\ \E i \in RoomIds \ {Entrance, ExitRoom} : TypeOf(i).difficulty # <<0, 1>>

(* ---- C12 ---- *)

GenericTypes ==
  {t \in 1..Len(catalog.roomTypes) :
     ~catalog.roomTypes[t].isEntrance /\ ~catalog.roomTypes[t].isExit}

(* The generic types the weighted draw can return for room i. *)
FittingTypes(i) ==
  {t \in GenericTypes :
     /\ catalog.roomTypes[t].priority >= 1
     /\ RLe(catalog.roomTypes[t].difficulty, rooms[i + 1].difficulty)}

(* The generic type of least difficulty, the first in catalog order among  *)
(* those of equal difficulty.                                              *)
IsFirstLowestGeneric(t) ==
  /\ t \in GenericTypes
  /\ \A u \in GenericTypes :
       /\ RLe(catalog.roomTypes[t].difficulty, catalog.roomTypes[u].difficulty)
       /\ u < t => catalog.roomTypes[u].difficulty
                     # catalog.roomTypes[t].difficulty

TypeFitsOrIsLowest ==
  \A i \in RoomIds \ {Entrance, ExitRoom} :
    IF FittingTypes(i) # {}
    THEN RLe(TypeOf(i).difficulty, rooms[i + 1].difficulty)
    ELSE IsFirstLowestGeneric(rooms[i + 1].type)

(* The catalog has an entrance and an exit type the weighted draw returns. *)
HasTerminalTypes ==
  /\ \E t \in 1..Len(catalog.roomTypes) :
       catalog.roomTypes[t].isEntrance /\ catalog.roomTypes[t].priority >= 1
  /\ \E t \in 1..Len(catalog.roomTypes) :
       catalog.roomTypes[t].isExit /\ catalog.roomTypes[t].priority >= 1

(* C12 as stated: a room that is neither entrance nor exit gets a type of  *)
(* difficulty at most its own when a generic type of priority >= 1 fits,   *)
(* and otherwise the first generic type of least difficulty; the rooms     *)
(* between entrance and exit never make the layer raise an error.          *)
C12_TypeFitsOrLowestNoError ==
  /\ Returned("AssignRoomTypes") => TypeFitsOrIsLowest
  /\ pc = "GeneratorError" => ~HasTerminalTypes

(* C12 amended: a room that is neither entrance nor exit gets a type of    *)
(* difficulty at most its own when a generic type of priority >= 1 fits,   *)
(* and otherwise the first generic type of least difficulty; the layer     *)
(* raises GeneratorError for such a room exactly when the catalog has no   *)
(* generic type at all.                                                    *)
C12_TypeFitsOrLowestUnlessNoGeneric ==
  /\ Returned("AssignRoomTypes") =>
       /\ TypeFitsOrIsLowest
       /\ RoomIds \ {Entrance, ExitRoom} # {} => GenericTypes # {}
  /\ pc = "GeneratorError" /\ HasTerminalTypes =>
       GenericTypes = {} /\ RoomIds \ {Entrance, ExitRoom} # {}

(* A room fell back to a type that costs more than the room's difficulty,  *)
(* in a catalog whose generic types all cost the same.                     *)
C12_Witness ==
  /\ Returned("AssignRoomTypes")
  /\ Cardinality(GenericTypes) >= 2
  /\ \E i \in RoomIds \ {Entrance, ExitRoom} :
       /\ FittingTypes(i) = {}
       /\ ~RLe(TypeOf(i).difficulty, rooms[i + 1].difficulty)
       /\ \A u \in GenericTypes :
            catalog.roomTypes[u].difficulty = TypeOf(i).difficulty

(* ---- C13 ---- *)

EnemyIds == 1..Len(catalog.enemyTypes)

(* C13: after EnemiesLayer.process_dungeon no room holds an enemy type     *)
(* more often than that type's maxCount, enemies of difficulty 0 included. *)
C13_EnemyCountWithinMaxCount ==
  \A i \in RoomIds : \A e \in EnemyIds :
    CountOf(rooms[i + 1].enemies, e) <= catalog.enemyTypes[e].maxCount

(* A room filled up to maxCount with an enemy that costs nothing. *)
C13_Witness ==
  /\ Returned("EnemiesLayer")
  /\ \E i \in RoomIds : \E e \in EnemyIds :
       /\ catalog.enemyTypes[e].difficulty = <<0, 1>>
       /\ catalog.enemyTypes[e].maxCount >= 2
       /\ CountOf(rooms[i + 1].enemies, e) = catalog.enemyTypes[e].maxCount

(* ---- C14 ---- *)

RECURSIVE SumOfDifficulties(_)
SumOfDifficulties(enemies) ==
  IF enemies = <<>> THEN RInt(0)
  ELSE RAdd(catalog.enemyTypes[Head(enemies)].difficulty,
            SumOfDifficulties(Tail(enemies)))

(* C14: in every room with at least one enemy the difficulty of the room's *)
(* type plus the difficulties of its enemies is at most the room's         *)
(* difficulty, and a room whose type costs at least the room's difficulty  *)
(* has no enemies.                                                         *)
C14_EnemiesWithinBudget ==
  \A i \in RoomIds :
    rooms[i + 1].enemies # <<>> =>
      /\ rooms[i + 1].type # 0
      /\ RLe(RAdd(TypeOf(i).difficulty,
                  SumOfDifficulties(rooms[i + 1].enemies)),
             rooms[i + 1].difficulty)
      /\ ~RLe(rooms[i + 1].difficulty, TypeOf(i).difficulty)

(* A room with several enemies, and a room left empty because its type     *)
(* uses up its difficulty.                                                 *)
C14_Witness ==
  /\ Returned("EnemiesLayer")
  /\ \E i \in RoomIds :
       /\ Len(rooms[i + 1].enemies) >= 2
       /\ SumOfDifficulties(rooms[i + 1].enemies) # RInt(0)
  /\ \E i \in RoomIds \ {Entrance, ExitRoom} :
       /\ RLe(rooms[i + 1].difficulty, TypeOf(i).difficulty)
       /\ rooms[i + 1].difficulty # <<0, 1>>
       /\ rooms[i + 1].enemies = <<>>

(* ---- C15 ---- *)

HoldsKey(i) == \E k \in 1..Len(keys) : keys[k].keyLocation = i

(* C15: an endOfRegion enemy is only ever in a room that is the            *)
(* keyLocation of some key or the final room of the main path, and         *)
(* is_end_of_region is true of exactly those rooms.                        *)
C15_EndOfRegionAtKeyOrExit ==
  PathBuilt =>
    /\ \A i \in RoomIds :
         is_end_of_region(keys, paths[1], i) <=> (HoldsKey(i) \/ i = ExitRoom)
    /\ \A i \in RoomIds : \A k \in 1..Len(rooms[i + 1].enemies) :
         catalog.enemyTypes[rooms[i + 1].enemies[k]].endOfRegion =>
           HoldsKey(i) \/ i = ExitRoom

(* ---- C16 ---- *)

(* C16: every enemy with a non-empty requiresEnemy stands, in its room's   *)
(* list, after an enemy whose name is in that requiresEnemy.               *)
C16_RequiredEnemyComesFirst ==
  \A i \in RoomIds : \A k \in 1..Len(rooms[i + 1].enemies) :
    LET enemy == catalog.enemyTypes[rooms[i + 1].enemies[k]]
    IN enemy.requiresEnemy # {} =>
         \E j \in 1..(k - 1) :
           catalog.enemyTypes[rooms[i + 1].enemies[j]].name
             \in enemy.requiresEnemy

C16_Witness ==
  /\ Returned("EnemiesLayer")
  /\ \E i \in RoomIds : \E k \in 1..Len(rooms[i + 1].enemies) :
       catalog.enemyTypes[rooms[i + 1].enemies[k]].requiresEnemy # {}

(* ---- C17 ---- *)

(* The layer whose process_dungeon is running at pc. *)
Running ==
  IF pc \in {"process_dungeon", "create_path"} THEN "BranchingPathLayer"
  ELSE IF pc = "regions" THEN "AssignRegionsLayer"
  ELSE IF pc = "difficulties" THEN "AssignDifficultiesLayer"
  ELSE IF pc = "types" THEN "AssignRoomTypes"
  ELSE IF pc = "enemies" THEN "EnemiesLayer"
  ELSE "none"

(* C17: gen_map calls process_dungeon of the layers of config.layers once  *)
(* each and in list order on the one dungeon, starts a layer only when the *)
(* one before it has returned, and returns after the last layer.           *)
C17_LayersRunOnceInOrder ==
  /\ Len(called) <= Len(catalog.layers)
  /\ called = SubSeq(catalog.layers, 1, Len(called))
  /\ Running # "none" => Running = called[Len(called)]
  /\ pc = "done" => called = catalog.layers

C17_Witness ==
  /\ pc = "done"
  /\ called = FullPipeline
  /\ \E i \in RoomIds : rooms[i + 1].enemies # <<>>

(* ---- C18 ---- *)

LacksTerminalType ==
  \/ ~\E t \in 1..Len(catalog.roomTypes) : catalog.roomTypes[t].isEntrance
  \/ ~\E t \in 1..Len(catalog.roomTypes) : catalog.roomTypes[t].isExit

(* C18: with a catalog that has no entrance type or no exit type the       *)
(* generation call fails with an error raised before any room is created.  *)
C18_FailsBeforeAnyRoom ==
  LacksTerminalType /\ pc = "GeneratorError" => rooms = <<>>

(* ---- C19 ---- *)

(* C19: the restart loop of process_dungeon is capped: a failed walk is    *)
(* followed by a new attempt only while fewer than MaxAttempts attempts    *)
(* have been made.                                                         *)
C19_RestartsAreCapped ==
  [][DeadEnd => attempt < MaxAttempts]_vars

(* ---- C20 ---- *)

ExitDoors == {d \in 0..3 : rooms[ExitRoom + 1].doors[d + 1]}

ExitIsLastAndBranchless ==
  /\ Entrance = 0
  /\ ExitRoom = Len(rooms) - 1
  /\ \A p \in 2..Len(paths) : paths[p].rooms[1] # ExitRoom

ExitOpensOnlyToPredecessor ==
  /\ Cardinality(ExitDoors) = 1
  /\ Len(paths[1].rooms) >= 2
  /\ \A d \in ExitDoors :
       RoomsAcross(ExitRoom, d) = {paths[1].rooms[Len(paths[1].rooms) - 1]}

(* C20 as stated: rooms[0] is mainPath.rooms[0], rooms[-1] is              *)
(* mainPath.rooms[-1]; the exit has exactly one open door, which leads to  *)
(* the main-path room before it, and no side path or optional branch       *)
(* starts at the exit.                                                     *)
C20_ExitHasOneDoor ==
  PathBuilt => ExitIsLastAndBranchless /\ ExitOpensOnlyToPredecessor

(* C20 amended: rooms[0] is mainPath.rooms[0], rooms[-1] is                *)
(* mainPath.rooms[-1] and no side path or optional branch starts at the    *)
(* exit; when the main path has at least two rooms the exit has exactly    *)
(* one open door, which leads to the main-path room before it; a main path *)
(* of length 0 gives a dungeon of one room without an open door.           *)
C20_ExitHasOneDoorUnlessAlone ==
  PathBuilt =>
    /\ ExitIsLastAndBranchless
    /\ Len(paths[1].rooms) >= 2 => ExitOpensOnlyToPredecessor
    /\ Len(paths[1].rooms) = 1 => Len(rooms) = 1 /\ ExitDoors = {}

C20_Witness ==
  /\ PathBuilt
  /\ Len(paths[1].rooms) >= 3
  /\ \E p \in 2..Len(paths) :
       paths[p].rooms[1] = paths[1].rooms[Len(paths[1].rooms) - 1]

(* ---- C21 ---- *)

UnresolvedIn(rs) == {i \in 1..Len(rs) : rs[i].region = 0 - 1}

(* From rs on, every pass that starts with an unresolved room resolves at  *)
(* least one, unresolves none, and a pass that starts with none changes    *)
(* nothing, which ends the loop.                                           *)
RECURSIVE EveryPassResolves(_, _)
EveryPassResolves(rs, ks) ==
  LET next == RegionPass(rs, ks, 1)
  IN IF UnresolvedIn(rs) = {} THEN next = rs
     ELSE /\ UnresolvedIn(next) \subseteq UnresolvedIn(rs)
          /\ UnresolvedIn(next) # UnresolvedIn(rs)
          /\ EveryPassResolves(next, ks)

(* C21: on every dungeon BranchingPathLayer produces, each pass of         *)
(* AssignRegionsLayer that starts with an unresolved room resolves at      *)
(* least one more, the loop stops at the first pass that changes nothing,  *)
(* and then no room has region -1: every region is a non-negative integer. *)
C21_RegionPassesResolveEveryRoom ==
  /\ pc = "regions" =>
       EveryPassResolves(ClearRegions(rooms, paths[1].rooms[1]), keys)
  /\ RegionsAssigned => \A i \in RoomIds : rooms[i + 1].region \in Nat

C21_Witness ==
  /\ RegionsAssigned
  /\ Len(rooms) >= 4
  /\ \E i \in RoomIds : rooms[i + 1].region >= 1

(* ---- C22 ---- *)

(* The rooms a side path or optional branch has created: all of its rooms  *)
(* but the first, which is the room it starts from.                        *)
BranchRooms ==
  UNION {{paths[p].rooms[r] : r \in 2..Len(paths[p].rooms)}
           : p \in 2..Len(paths)}

(* C22: for every DungeonKey the lockLocation and the room across the      *)
(* locked door both have depth 0 and are consecutive rooms of the main     *)
(* path; no locked door leads into a room of a side path or of an optional *)
(* branch.  A key is recorded together with the room behind its door, so   *)
(* this holds of the keys at every moment of the walk.                     *)
C22_LocksOnlyOnMainPath ==
  \A k \in 1..Len(keys) :
    /\ rooms[keys[k].lockLocation + 1].depth = 0
    /\ RoomsAcross(keys[k].lockLocation, keys[k].lockedDoor) # {}
    /\ \A across \in RoomsAcross(keys[k].lockLocation, keys[k].lockedDoor) :
         /\ rooms[across + 1].depth = 0
         /\ across \notin BranchRooms
         /\ \E m \in 1..(Len(paths[1].rooms) - 1) :
              /\ paths[1].rooms[m] = keys[k].lockLocation
              /\ paths[1].rooms[m + 1] = across

(* A lock on a room that also starts an optional branch, with a side path  *)
(* long enough to branch itself.                                           *)
C22_Witness ==
  /\ PathBuilt
  /\ \E k \in 1..Len(keys) : \E p, q \in 2..Len(paths) :
       /\ paths[p].optional
       /\ paths[p].rooms[1] = keys[k].lockLocation
       /\ ~paths[q].optional
       /\ Len(paths[q].rooms) >= 3

(* ---- C23 ---- *)

GatedPaths == {p \in 2..Len(paths) : ~paths[p].optional}

(* The main-path room placed right after the room with index i. *)
NextOnMainPath(i) ==
  {paths[1].rooms[m + 1] :
     m \in {n \in 1..(Len(paths[1].rooms) - 1) : paths[1].rooms[n] = i}}

(* Key k is the key of side path p. *)
IsKeyOf(k, p) ==
  /\ keys[k].keyLocation = LastOf(paths[p].rooms)
  /\ keys[k].lockLocation = paths[p].rooms[1]
  /\ rooms[keys[k].lockLocation + 1].doors[keys[k].lockedDoor + 1]
  /\ RoomsAcross(keys[k].lockLocation, keys[k].lockedDoor)
       = NextOnMainPath(paths[p].rooms[1])

RegionOf(i) == rooms[i + 1].region

RoomsOfRegion(r) == {i \in RoomIds : RegionOf(i) = r}

FirstOfRegion(r) ==
  CHOOSE i \in RoomsOfRegion(r) : \A j \in RoomsOfRegion(r) : i <= j

LastOfRegion(r) ==
  CHOOSE i \in RoomsOfRegion(r) : \A j \in RoomsOfRegion(r) : j <= i

NonDecreasingWithinRegions ==
  \A i, j \in RoomIds :
    i < j /\ RegionOf(i) = RegionOf(j) =>
      RLe(rooms[i + 1].difficulty, rooms[j + 1].difficulty)

ResetsAtRegionBoundaries ==
  \A r \in 1..(region_count(rooms) - 1) :
    RoomsOfRegion(r) # {} /\ RoomsOfRegion(r - 1) # {} =>
      RLe(rooms[FirstOfRegion(r) + 1].difficulty,
          rooms[LastOfRegion(r - 1) + 1].difficulty)

(* C24: with noise = 0 and 0 <= dropoff <= 1 the difficulties are          *)
(* non-decreasing in creation index within each region, and the first room *)
(* of a region r > 0 has a difficulty not greater than that of the last    *)
(* room of region r - 1.                                                   *)
C24_DifficultyRisesAndResets ==
  Returned("AssignDifficultiesLayer") /\ curve.noise = <<0, 1>> =>
    NonDecreasingWithinRegions /\ ResetsAtRegionBoundaries

(* The part of C24 that holds: non-decreasing within each region. *)
DifficultyRisesWithinRegions ==
  Returned("AssignDifficultiesLayer") /\ curve.noise = <<0, 1>> =>
    NonDecreasingWithinRegions

(* ---- C25 ---- *)

EndsOfTheCurve ==
  /\ rooms[Entrance + 1].difficulty = curve.startingPoints
  /\ rooms[ExitRoom + 1].difficulty = RInt(1)

(* C25: with noise = 0, in every dungeon AssignDifficultiesLayer has been  *)
(* run on, the entrance's difficulty is startingPoints and the exit's      *)
(* difficulty is 1.                                                        *)
C25_EntranceLowestExitHighest ==
  (curve.noise = <<0, 1>>
     /\ (Returned("AssignDifficultiesLayer") \/ pc = "ZeroDivisionError"))
    => EndsOfTheCurve

(* What holds instead: the two values are as claimed whenever the layer    *)
(* returns.                                                                *)
EndsOfTheCurveOnReturn ==
  curve.noise = <<0, 1>> /\ Returned("AssignDifficultiesLayer")
    => EndsOfTheCurve

(* ---- C26 ---- *)

(* The paths that have path p among their sidePaths. *)
ParentsOf(p) ==
  {q \in 1..Len(paths) :
     \E k \in 1..Len(paths[q].sidePaths) : paths[q].sidePaths[k] = p}

(* The main path and the non-optional side paths reached from it through   *)
(* non-optional side paths only, found by going down from the main path.   *)
RECURSIVE GrowRequired(_)
GrowRequired(found) ==
  LET next == found \cup {p \in 1..Len(paths) :
                            ~paths[p].optional /\ ParentsOf(p) \cap found # {}}
  IN IF next = found THEN found ELSE GrowRequired(next)

RequiredPaths == GrowRequired({1})

OnPath(i, p) == \E r \in 1..Len(paths[p].rooms) : paths[p].rooms[r] = i

BudgetAfter(i, k) ==
  RSub(RSub(rooms[i + 1].difficulty, TypeOf(i).difficulty),
       SumOfDifficulties(SubSeq(rooms[i + 1].enemies, 1, k)))

(* The enemy types that satisfy every constraint in room i after the first *)
(* k of its enemies.                                                       *)
CandidatesAfter(i, k) ==
  LET placed == SubSeq(rooms[i + 1].enemies, 1, k)
  IN {e \in EnemyIds :
        /\ catalog.enemyTypes[e].priority >= 1
        /\ RLe(catalog.enemyTypes[e].difficulty, BudgetAfter(i, k))
        /\ CountOf(placed, e) < catalog.enemyTypes[e].maxCount
        /\ catalog.enemyTypes[e].endOfRegion =>
             is_end_of_region(keys, paths[1], i)
        /\ catalog.enemyTypes[e].requiresEnemy # {} =>
             \E j \in 1..k : catalog.enemyTypes[placed[j]].name
                               \in catalog.enemyTypes[e].requiresEnemy
        /\ catalog.enemyTypes[e].requiresRoom # {} =>
             TypeOf(i).name \in catalog.enemyTypes[e].requiresRoom}

(* The loop of room i went on exactly while the budget was positive and an *)
(* enemy satisfied the constraints, and each round appended one of those.  *)
PlacementStoppedInTime(i) ==
  LET n == Len(rooms[i + 1].enemies)
  IN /\ \A k \in 0..(n - 1) :
          /\ ~RLe(BudgetAfter(i, k), RInt(0))
          /\ rooms[i + 1].enemies[k + 1] \in CandidatesAfter(i, k)
     /\ RLe(BudgetAfter(i, n), RInt(0)) \/ CandidatesAfter(i, n) = {}

(* C27: EnemiesLayer.process_dungeon ends without an error on every enemy  *)
(* catalog, the empty one and those with enemies of difficulty 0 included; *)
(* in each room the loop stops as soon as the budget left is <= 0 or no    *)
(* enemy satisfies the constraints, and every other round appends exactly  *)
(* one enemy.                                                              *)
C27_EnemyPlacementStops ==
  /\ pc = "enemies" =>
       PlaceEnemiesFrom(rooms, keys, paths[1], catalog.roomTypes,
                        catalog.enemyTypes, 1) # {}
  /\ Returned("EnemiesLayer") =>
       \A i \in RoomIds :
         IF rooms[i + 1].type = 0 \/ TypeOf(i).isEntrance \/ TypeOf(i).isExit
         THEN rooms[i + 1].enemies = <<>>
         ELSE PlacementStoppedInTime(i)

(* A room that holds an enemy of difficulty 0 and stopped with budget left *)
(* because no enemy fits any more.                                         *)
C27_Witness ==
  /\ Returned("EnemiesLayer")
  /\ \E i \in RoomIds :
       /\ \E k \in 1..Len(rooms[i + 1].enemies) :
            catalog.enemyTypes[rooms[i + 1].enemies[k]].difficulty = <<0, 1>>
       /\ ~RLe(BudgetAfter(i, Len(rooms[i + 1].enemies)), RInt(0))

(* The layer has run with an empty enemy catalog on rooms with a budget. *)
EmptyCatalogPlacesNothing ==
  /\ Returned("EnemiesLayer")
  /\ catalog.enemyTypes = <<>>
  /\ \E i \in RoomIds \ {Entrance, ExitRoom} :
       ~RLe(BudgetAfter(i, 0), RInt(0))

(* ---- C28 ---- *)

OpenDoors == {<<i, d>> \in RoomIds \X (0..3) : rooms[i + 1].doors[d + 1]}

(* Room j was created from room i, or i from j: they follow one another in *)
(* the rooms of a path.                                                    *)
CreatedOneFromTheOther(i, j) ==
  \E p \in 1..Len(paths) : \E r \in 1..(Len(paths[p].rooms) - 1) :
    {paths[p].rooms[r], paths[p].rooms[r + 1]} = {i, j}

(* C28: the open doors of a generated dungeon form a tree rooted at the    *)
(* entrance: every room is reached from the entrance, there are            *)
(* len(rooms) - 1 pairs of doors, every room but the entrance has exactly  *)
(* one door to a room created before it, and grid neighbours that were not *)
(* created one from the other have no door between them.                   *)
C28_DoorsFormATree ==
  PathBuilt =>
    /\ ReachableWithout(None, 0) = RoomIds
    /\ Cardinality(OpenDoors) = 2 * (Len(rooms) - 1)
    /\ \A i \in RoomIds \ {Entrance} :
         Cardinality({d \in 0..3 :
                        /\ rooms[i + 1].doors[d + 1]
                        /\ \E j \in RoomsAcross(i, d) : j < i}) = 1
    /\ \A i \in RoomIds : \A d \in 0..3 : \A j \in RoomsAcross(i, d) :
         rooms[i + 1].doors[d + 1] => CreatedOneFromTheOther(i, j)

(* Two rooms side by side without a door between them. *)
C28_Witness ==
  /\ PathBuilt
  /\ \E i \in RoomIds : \E d \in 0..3 :
       /\ RoomsAcross(i, d) # {}
       /\ ~rooms[i + 1].doors[d + 1]

(* ---- C29 ---- *)

(* regionValues as the first loop of AssignDifficultiesLayer leaves it. *)
RegionStarts ==
  NumberRooms(rooms, 1, 0, 0,
              [k \in 1..(region_count(rooms) + 1) |-> 0]).regionValues

(* C29: after region assignment room.region is non-decreasing in creation  *)
(* index and rises by exactly 1 where it changes, every region id          *)
(* 0..len(keys) is used, region_count() = rooms[-1].region + 1 =           *)
(* len(keys) + 1, and the first loop of AssignDifficultiesLayer writes the *)
(* index of the first room of every region to regionValues.                *)
C29_RegionsRiseOneByOne ==
  RegionsAssigned =>
    /\ RegionOf(0) = 0
    /\ \A i \in RoomIds \ {0} :
         RegionOf(i) = RegionOf(i - 1) \/ RegionOf(i) = RegionOf(i - 1) + 1
    /\ {RegionOf(i) : i \in RoomIds} = 0..Len(keys)
    /\ region_count(rooms) = RegionOf(Len(rooms) - 1) + 1
    /\ region_count(rooms) = Len(keys) + 1
    /\ \A r \in 0..Len(keys) : RegionStarts[r + 1] = FirstOfRegion(r)

(* Three regions, the middle one of a single room. *)
C29_Witness ==
  /\ RegionsAssigned
  /\ Len(keys) = 2
  /\ Cardinality(RoomsOfRegion(1)) = 1

(* ---- C30 ---- *)

(* The step changes no room but in the given attribute, and adds or        *)
(* removes no room, key or path.                                           *)
WritesOnly(field) ==
  /\ Len(rooms') = Len(rooms)
  /\ \A i \in 1..Len(rooms) :
       [rooms'[i] EXCEPT ![field] = rooms[i][field]] = rooms[i]
  /\ keys' = keys
  /\ paths' = paths

(* C30: the layers after BranchingPathLayer leave the structure alone:     *)
(* AssignRegionsLayer writes only room.region, AssignDifficultiesLayer     *)
(* only room.difficulty, AssignRoomTypes only room.type and EnemiesLayer   *)
(* only room.enemies, whether they return or raise.                        *)
C30_LayersWriteOnlyTheirAttribute ==
  [][/\ pc = "regions" => WritesOnly("region")
     /\ pc = "difficulties" => WritesOnly("difficulty")
     /\ pc = "types" => WritesOnly("type")
     /\ pc = "enemies" => WritesOnly("enemies")]_vars

(* All four layers have run and each has written something. *)
C30_Witness ==
  /\ pc = "done"
  /\ called = FullPipeline
  /\ \E i \in RoomIds :
       /\ rooms[i + 1].region # 0
       /\ rooms[i + 1].difficulty # <<0, 1>>
       /\ rooms[i + 1].type # 0
       /\ rooms[i + 1].enemies # <<>>


====
